---- MODULE Spec2Model ----
\* SEO analyzer: fetch-with-fallback over CORS proxies, rule based scoring of
\* the parsed DOM (utils/seoAnalyzer) and the SeoAnalyzer React component.
EXTENDS Integers, Sequences, FiniteSets, TLC

VARIABLES url, results, loading, error, calls, submitted, event, lastCall,
          writer, doc, analysis

vars == <<url, results, loading, error, calls, submitted, event, lastCall,
          writer, doc, analysis>>

\* ---------------------------------------------------------------------
\* Bounds of the model
\* ---------------------------------------------------------------------
MaxTitleLen == 61
MaxDescLen == 161
MaxTags == 1
MaxH1 == 2
MaxSubmissions == 2

\* null / undefined and a present value of an optional
None == <<>>
Some(v) == <<v>>
Absent == -1

\* ---------------------------------------------------------------------
\* The parsed DOM, reduced to the measures analyzeSeo reads from it
\* ---------------------------------------------------------------------
\* trimmed length of $('title').text()
TitleLens == {0, 1, 29, 30, 60} \cup (61..MaxTitleLen)
\* trimmed length of the description content; Absent when attr() is undefined
DescLens == {Absent, 0, 1, 119, 120, 160} \cup (161..MaxDescLen)
\* trimmed length of an optional attribute; Absent when attr() is undefined
AttrLens == {Absent, 0, 1}
TagCounts == 0..MaxTags

\* the values each measure ranges over
MetaFields ==
  [titleLen |-> TitleLens, descLen |-> DescLens, keywords |-> AttrLens,
   robots |-> AttrLens, canonical |-> AttrLens, viewport |-> AttrLens,
   charset |-> AttrLens, ogTags |-> TagCounts, twitterTags |-> TagCounts]

\* headings counts $('h1, h2, h3, h4, h5, h6'), the h1 elements included;
\* wordCount is the length of a split() result, hence never 0
ContentFields ==
  [h1Count |-> 0..MaxH1, headings |-> 0..(MaxH1 + 1),
   imagesWithoutAlt |-> 0..2, externalLinks |-> 0..1,
   wordCount |-> {1, 299, 300}, paragraphs |-> {0, 2, 3}, lists |-> 0..1,
   tables |-> 0..1]

PerfFields ==
  [cssFiles |-> {0, 5, 6}, jsFiles |-> {10, 11}, inlineStyles |-> {5, 6},
   inlineScripts |-> {5, 6}, largeImages |-> {10, 11}, iframes |-> {2, 3}]

DocFields ==
  [meta |-> MetaFields, content |-> ContentFields, perf |-> PerfFields]

MetaDocs ==
  [titleLen : MetaFields.titleLen, descLen : MetaFields.descLen,
   keywords : MetaFields.keywords, robots : MetaFields.robots,
   canonical : MetaFields.canonical, viewport : MetaFields.viewport,
   charset : MetaFields.charset, ogTags : MetaFields.ogTags,
   twitterTags : MetaFields.twitterTags]

ContentDocs ==
  {c \in [h1Count : ContentFields.h1Count, headings : ContentFields.headings,
          imagesWithoutAlt : ContentFields.imagesWithoutAlt,
          externalLinks : ContentFields.externalLinks,
          wordCount : ContentFields.wordCount,
          paragraphs : ContentFields.paragraphs, lists : ContentFields.lists,
          tables : ContentFields.tables] : c.headings >= c.h1Count}

PerfDocs ==
  [cssFiles : PerfFields.cssFiles, jsFiles : PerfFields.jsFiles,
   inlineStyles : PerfFields.inlineStyles,
   inlineScripts : PerfFields.inlineScripts,
   largeImages : PerfFields.largeImages, iframes : PerfFields.iframes]

CleanMeta ==
  [titleLen |-> 30, descLen |-> 120, keywords |-> 1, robots |-> 1,
   canonical |-> 1, viewport |-> 1, charset |-> 1, ogTags |-> 1,
   twitterTags |-> 1]
WorstMeta ==
  [titleLen |-> 0, descLen |-> Absent, keywords |-> Absent, robots |-> Absent,
   canonical |-> Absent, viewport |-> Absent, charset |-> Absent, ogTags |-> 0,
   twitterTags |-> 0]
CleanContent ==
  [h1Count |-> 1, headings |-> 3, imagesWithoutAlt |-> 0,
   externalLinks |-> 1, wordCount |-> 300, paragraphs |-> 3, lists |-> 1,
   tables |-> 1]
WorstContent ==
  [h1Count |-> 0, headings |-> 0, imagesWithoutAlt |-> 2,
   externalLinks |-> 0, wordCount |-> 1, paragraphs |-> 0, lists |-> 0,
   tables |-> 0]
CleanPerf ==
  [cssFiles |-> 0, jsFiles |-> 10, inlineStyles |-> 5, inlineScripts |-> 5,
   largeImages |-> 10, iframes |-> 2]
WorstPerf ==
  [cssFiles |-> 6, jsFiles |-> 11, inlineStyles |-> 6, inlineScripts |-> 6,
   largeImages |-> 11, iframes |-> 3]

CleanDoc == [meta |-> CleanMeta, content |-> CleanContent, perf |-> CleanPerf]
WorstDoc == [meta |-> WorstMeta, content |-> WorstContent, perf |-> WorstPerf]

\* Documents analysed by the rule sets: one section ranges over all of its
\* measures while the two others are clean, and the document with every
\* issue at once.
Docs ==
  [meta : MetaDocs, content : {CleanContent}, perf : {CleanPerf}]
  \cup [meta : {CleanMeta}, content : ContentDocs, perf : {CleanPerf}]
  \cup [meta : {CleanMeta}, content : {CleanContent}, perf : PerfDocs]
  \cup {WorstDoc}

\* ---------------------------------------------------------------------
\* analyzeSeo: the rule sets
\* ---------------------------------------------------------------------
\* !x for a string | undefined
Falsy(len) == len = Absent \/ len = 0

Issue(cond, msg) == IF cond THEN <<msg>> ELSE <<>>

MsgTitleMissing == "Missing title tag"
MsgTitleShort == "Title is too short (should be at least 30 characters)"
MsgTitleLong == "Title is too long (should be less than 60 characters)"
MsgDescMissing == "Missing meta description"
MsgDescShort == "Meta description is too short (should be at least 120 characters)"
MsgDescLong == "Meta description is too long (should be less than 160 characters)"

TitleIssuesDup(titleLen) ==
  Issue(Falsy(titleLen), MsgTitleMissing)
  \o Issue(titleLen < 30, MsgTitleShort)
  \o Issue(titleLen >= 60, MsgTitleLong)

TitleIssues(titleLen) ==
  IF Falsy(titleLen) THEN <<MsgTitleMissing>>
  ELSE IF titleLen < 30 THEN <<MsgTitleShort>>
  ELSE IF titleLen > 60 THEN <<MsgTitleLong>>
  ELSE <<>>

DescIssues(descLen) ==
  IF Falsy(descLen) THEN <<MsgDescMissing>>
  ELSE IF descLen < 120 THEN <<MsgDescShort>>
  ELSE IF descLen > 160 THEN <<MsgDescLong>>
  ELSE <<>>

MetaIssues(m) ==
  TitleIssues(m.titleLen)
  \o DescIssues(m.descLen)
  \o Issue(Falsy(m.keywords), "Missing meta keywords")
  \o Issue(Falsy(m.robots), "Missing robots meta tag")
  \o Issue(Falsy(m.canonical), "Missing canonical URL")
  \o Issue(Falsy(m.viewport), "Missing viewport meta tag")
  \o Issue(Falsy(m.charset), "Missing charset meta tag")
  \o Issue(m.ogTags = 0, "Missing Open Graph tags")
  \o Issue(m.twitterTags = 0, "Missing Twitter Card tags")

MsgH1Missing == "Missing H1 heading"
MsgH1Multiple == "Multiple H1 headings detected (should have exactly one)"
MsgFewHeadings == "Too few headings (should use proper heading hierarchy)"

HeadingsIssueChained(c) ==
  Issue(c.h1Count > 0 /\ c.headings < 2, MsgFewHeadings)

HeadingsIssue(c) == Issue(c.headings < 2, MsgFewHeadings)

ContentIssues(c) ==
  Issue(c.h1Count = 0, MsgH1Missing)
  \o Issue(c.h1Count > 1, MsgH1Multiple)
  \o Issue(c.imagesWithoutAlt > 0,
           ToString(c.imagesWithoutAlt) \o " images missing alt text")
  \o Issue(c.externalLinks = 0,
           "No external links found (consider adding relevant outbound links)")
  \o Issue(c.wordCount < 300,
           "Content length is too short (should be at least 300 words)")
  \o Issue(c.paragraphs < 3,
           "Too few paragraphs (should have at least 3 paragraphs)")
  \o HeadingsIssue(c)
  \o Issue(c.lists = 0,
           "No lists found (consider using bullet points or numbered lists)")
  \o Issue(c.tables = 0,
           "No tables found (consider using tables for structured data)")

PerformanceIssues(p) ==
  Issue(p.cssFiles > 5,
        "High number of CSS files (" \o ToString(p.cssFiles)
          \o " found, recommend combining)")
  \o Issue(p.jsFiles > 10,
           "High number of JavaScript files (" \o ToString(p.jsFiles)
             \o " found, recommend combining)")
  \o Issue(p.inlineStyles > 5,
           ToString(p.inlineStyles)
             \o " inline styles found (recommend using external CSS)")
  \o Issue(p.inlineScripts > 5,
           ToString(p.inlineScripts)
             \o " inline scripts found (recommend using external JS files)")
  \o Issue(p.largeImages > 10,
           ToString(p.largeImages)
             \o " large images found (recommend optimizing)")
  \o Issue(p.iframes > 2,
           ToString(p.iframes)
             \o " iframes found (consider reducing for better performance)")

Max(a, b) == IF a >= b THEN a ELSE b

ScoreSteep(issues, penalty) == Max(0, 100 - (Len(issues) * (penalty + 5)))

Score(issues, penalty) == Max(0, 100 - (Len(issues) * penalty))

\* the object analyzeSeo returns for a parsed document
AnalyzeDocument(d) ==
  LET metaIssues == MetaIssues(d.meta)
      contentIssues == ContentIssues(d.content)
      performanceIssues == PerformanceIssues(d.perf)
  IN [metaScore |-> Score(metaIssues, 10),
      metaIssues |-> metaIssues,
      contentScore |-> Score(contentIssues, 8),
      contentIssues |-> contentIssues,
      performanceScore |-> Score(performanceIssues, 8),
      performanceIssues |-> performanceIssues]

\* ---------------------------------------------------------------------
\* fetchWithFallback
\* ---------------------------------------------------------------------
PROXY_SERVICES == <<"api.allorigins.win", "corsproxy.io", "api.codetabs.com">>

NumProxies == Len(PROXY_SERVICES)

\* errors a proxy attempt can throw inside the try block
AxiosError(code, status) ==
  [axios |-> TRUE, code |-> code, status |-> status,
   message |-> IF status # 0
                 THEN "Request failed with status code " \o ToString(status)
                 ELSE IF code = "ECONNABORTED"
                        THEN "timeout of 15000ms exceeded"
                        ELSE "Network Error"]

PlainError(message) ==
  [axios |-> FALSE, code |-> "", status |-> 0, message |-> message]

ProxyErrors ==
  {AxiosError("ECONNABORTED", 0), AxiosError("ECONNABORTED", 404),
   AxiosError("ERR_BAD_REQUEST", 404), AxiosError("ERR_BAD_REQUEST", 403),
   AxiosError("ERR_BAD_RESPONSE", 500), PlainError("URI malformed")}

AllFailedError == PlainError("All proxy services failed")

\* response.data of a proxy answer
EmptyData == [kind |-> "empty", doc |-> None]
Html(d) == [kind |-> "html", doc |-> Some(d)]
\* a truthy response.data on which cheerio.load throws
Unparsable == [kind |-> "unparsable", doc |-> None]

Pages == {CleanDoc, WorstDoc}

ProxyData == {EmptyData, Unparsable} \cup {Html(d) : d \in Pages}

Outcomes ==
  {[kind |-> "threw", err |-> Some(e), data |-> EmptyData] : e \in ProxyErrors}
  \cup {[kind |-> "data", err |-> None, data |-> b] : b \in ProxyData}

\* if (response.data)
Truthy(data) == data.kind # "empty"

ReturnsBodyNever(out) == FALSE

ReturnsBody(out) == out.kind = "data" /\ Truthy(out.data)

NextProxySame(i) == i

NextProxy(i) == i + 1

LastErrorAfterReset(lastError, out) ==
  IF out.kind = "threw" THEN out.err ELSE None

\* lastError after the attempt: the catch block assigns it
LastErrorAfter(lastError, out) ==
  IF out.kind = "threw" THEN out.err ELSE lastError

\* throw lastError || new Error('All proxy services failed')
Thrown(lastError) == IF lastError # None THEN lastError[1] ELSE AllFailedError

RequestFirst(i) == [proxy |-> PROXY_SERVICES[1], out |-> None]

\* axios.get(proxyService(url)), not yet settled
Request(i) == [proxy |-> PROXY_SERVICES[i], out |-> None]

\* the awaited request settles with out
Settle(log, out) == [log EXCEPT ![Len(log)].out = Some(out)]

\* the call of fetchWithFallback(url) up to its first await
NewCall(id, u) ==
  [id |-> id, url |-> u, idx |-> 1, lastError |-> None,
   log |-> <<Request(1)>>]

\* ---------------------------------------------------------------------
\* analyzeSeo: the catch block
\* ---------------------------------------------------------------------
MsgTimeout ==
  "Request timed out. Please try again or check if the website is accessible."
MsgNotFound == "Website not found. Please check if the URL is correct."
MsgDenied ==
  "Access denied. The website might be blocking automated requests."
MsgFailed ==
  "Failed to analyze website. Please check your internet connection and try again."

ErrorMessageStatusFirst(e) ==
  IF e.axios
    THEN IF e.status = 404 THEN MsgNotFound
         ELSE IF e.code = "ECONNABORTED" THEN MsgTimeout
         ELSE IF e.status = 403 THEN MsgDenied
         ELSE "Unable to analyze website: " \o e.message
    ELSE MsgFailed

ErrorMessage(e) ==
  IF e.axios
    THEN IF e.code = "ECONNABORTED" THEN MsgTimeout
         ELSE IF e.status = 404 THEN MsgNotFound
         ELSE IF e.status = 403 THEN MsgDenied
         ELSE "Unable to analyze website: " \o e.message
    ELSE MsgFailed

\* ---------------------------------------------------------------------
\* SeoAnalyzer component
\* ---------------------------------------------------------------------
HttpPrefix == <<"h", "t", "t", "p", ":", "/", "/">>
HttpsPrefix == <<"h", "t", "t", "p", "s", ":", "/", "/">>

StartsWith(s, prefix) ==
  Len(s) >= Len(prefix) /\ SubSeq(s, 1, Len(prefix)) = prefix

\* values typed into the input
Urls ==
  {<<>>, <<"a">>, <<"h", "t", "t", "p">>, <<" ">> \o HttpPrefix \o <<"a">>,
   HttpPrefix \o <<"a">>, HttpsPrefix \o <<"b">>}

MsgInvalidUrl == "Please enter a valid URL starting with http:// or https://"

ValidUrl(u) == StartsWith(u, HttpPrefix) \/ StartsWith(u, HttpsPrefix)

DisabledNever(isLoading, u) == u = <<>>

\* disabled={loading || !url}
Disabled(isLoading, u) == isLoading \/ u = <<>>

NoCall == None

Init ==
  /\ url = <<>>
  /\ results = None
  /\ loading = FALSE
  /\ error = ""
  /\ calls = {}
  /\ submitted = 0
  /\ event = "init"
  /\ lastCall = NoCall
  /\ writer = 0
  /\ doc = None
  /\ analysis = None

\* onChange={(e) => setUrl(e.target.value)}
SetUrl(v) ==
  /\ v # url
  /\ url' = v
  /\ event' = "setUrl"
  /\ UNCHANGED <<results, loading, error, calls, submitted, lastCall, writer,
                 doc, analysis>>

RejectUrlClears ==
  /\ ~Disabled(loading, url)
  /\ ~ValidUrl(url)
  /\ error' = MsgInvalidUrl
  /\ results' = None
  /\ event' = "rejected"
  /\ UNCHANGED <<url, loading, calls, submitted, lastCall, writer, doc,
                 analysis>>

\* handleAnalysis, url without http:// or https://
RejectUrl ==
  /\ ~Disabled(loading, url)
  /\ ~ValidUrl(url)
  /\ error' = MsgInvalidUrl
  /\ event' = "rejected"
  /\ UNCHANGED <<url, results, loading, calls, submitted, lastCall, writer,
                 doc, analysis>>

AcceptUrlKeeps ==
  /\ ~Disabled(loading, url)
  /\ ValidUrl(url)
  /\ submitted < MaxSubmissions
  /\ loading' = TRUE
  /\ error' = ""
  /\ submitted' = submitted + 1
  /\ calls' = calls \cup {NewCall(submitted + 1, url)}
  /\ event' = "accepted"
  /\ lastCall' = NoCall
  /\ writer' = 0
  /\ UNCHANGED <<url, results, doc, analysis>>

\* handleAnalysis up to the first await inside fetchWithFallback
AcceptUrl ==
  /\ ~Disabled(loading, url)
  /\ ValidUrl(url)
  /\ submitted < MaxSubmissions
  /\ loading' = TRUE
  /\ error' = ""
  /\ results' = None
  /\ submitted' = submitted + 1
  /\ calls' = calls \cup {NewCall(submitted + 1, url)}
  /\ event' = "accepted"
  /\ lastCall' = NoCall
  /\ writer' = 0
  /\ UNCHANGED <<url, doc, analysis>>

HandleAnalysis == RejectUrl \/ AcceptUrl

\* a proxy throws or answers with an empty body and another proxy is left
ProxyFailsOver(c, out) ==
  /\ ~ReturnsBody(out)
  /\ c.idx < NumProxies
  /\ calls' = (calls \ {c}) \cup
       {[c EXCEPT !.idx = NextProxy(c.idx),
                  !.lastError = LastErrorAfter(c.lastError, out),
                  !.log = Append(Settle(c.log, out), Request(NextProxy(c.idx)))]}
  /\ event' = "failover"
  /\ UNCHANGED <<url, results, loading, error, submitted, lastCall, writer,
                 doc, analysis>>

\* the last proxy throws or answers with an empty body: fetchWithFallback
\* throws, analyzeSeo rethrows, handleAnalysis sets the error
ProxyExhausted(c, out) ==
  /\ ~ReturnsBody(out)
  /\ c.idx >= NumProxies
  /\ LET thrown == Thrown(LastErrorAfter(c.lastError, out))
         message == ErrorMessage(thrown)
     IN /\ error' = message
        /\ lastCall' = Some([id |-> c.id, url |-> c.url,
                             log |-> Settle(c.log, out), fetched |-> None,
                             thrown |-> Some(thrown),
                             message |-> Some(message)])
  /\ loading' = FALSE
  /\ calls' = calls \ {c}
  /\ writer' = c.id
  /\ event' = "failed"
  /\ UNCHANGED <<url, results, submitted, doc, analysis>>

\* a proxy answers with html: the rule sets run and the result is shown
ProxySucceeds(c, out) ==
  /\ ReturnsBody(out)
  /\ out.data.kind = "html"
  /\ doc' = out.data.doc
  /\ analysis' = Some(AnalyzeDocument(out.data.doc[1]))
  /\ results' = analysis'
  /\ loading' = FALSE
  /\ calls' = calls \ {c}
  /\ lastCall' = Some([id |-> c.id, url |-> c.url,
                       log |-> Settle(c.log, out), fetched |-> Some(out.data),
                       thrown |-> None, message |-> None])
  /\ writer' = c.id
  /\ event' = "resolved"
  /\ UNCHANGED <<url, error, submitted>>

\* a proxy answers with a body that makes cheerio throw inside the try
AnalysisThrows(c, out) ==
  /\ ReturnsBody(out)
  /\ out.data.kind = "unparsable"
  /\ LET message == ErrorMessage(PlainError("load failed"))
     IN /\ error' = message
        /\ lastCall' = Some([id |-> c.id, url |-> c.url,
                             log |-> Settle(c.log, out),
                             fetched |-> Some(out.data), thrown |-> None,
                             message |-> Some(message)])
  /\ loading' = FALSE
  /\ calls' = calls \ {c}
  /\ writer' = c.id
  /\ event' = "failed"
  /\ UNCHANGED <<url, results, submitted, doc, analysis>>

ProxyResponse ==
  \E c \in calls : \E out \in Outcomes :
    \/ ProxyFailsOver(c, out)
    \/ ProxyExhausted(c, out)
    \/ ProxySucceeds(c, out)
    \/ AnalysisThrows(c, out)

Next ==
  \/ \E v \in Urls : SetUrl(v)
  \/ RejectUrl
  \/ AcceptUrl
  \/ \E c \in calls : \E out \in Outcomes : ProxyFailsOver(c, out)
  \/ \E c \in calls : \E out \in Outcomes : ProxyExhausted(c, out)
  \/ \E c \in calls : \E out \in Outcomes : ProxySucceeds(c, out)
  \/ \E c \in calls : \E out \in Outcomes : AnalysisThrows(c, out)

Spec == Init /\ [][Next]_vars

\* every request resolves or rejects (timeout: 15000)
FairSpec == Spec /\ WF_vars(ProxyResponse)

\* ---------------------------------------------------------------------
\* The rule sets applied to every document of Docs
\* ---------------------------------------------------------------------
RulesInit ==
  /\ url = <<>>
  /\ results = None
  /\ loading = FALSE
  /\ error = ""
  /\ calls = {}
  /\ submitted = 0
  /\ event = "init"
  /\ lastCall = NoCall
  /\ writer = 0
  /\ doc \in {Some(d) : d \in Docs}
  /\ analysis = None

\* the part of analyzeSeo that follows cheerio.load
AnalyzeLoaded ==
  /\ analysis = None
  /\ analysis' = Some(AnalyzeDocument(doc[1]))
  /\ event' = "analyzed"
  /\ UNCHANGED <<url, results, loading, error, calls, submitted, lastCall,
                 writer, doc>>

RulesNext == AnalyzeLoaded

RulesSpec == RulesInit /\ [][RulesNext]_vars

\* ---------------------------------------------------------------------
\* Properties of the rule sets (RulesSpec)
\* ---------------------------------------------------------------------
Analyzed == analysis # None

\* C1: every score of a result is exactly 100 minus the fixed penalty per
\* issue (10 for meta, 8 for content and performance) and is never negative,
\* for every combination of issues the rule sets produce: the clamp at 0
\* never changes a value.
C1_ScoresArePenaltySums ==
  Analyzed =>
    LET r == analysis[1]
    IN /\ r.metaScore = 100 - (10 * Len(r.metaIssues))
       /\ r.contentScore = 100 - (8 * Len(r.contentIssues))
       /\ r.performanceScore = 100 - (8 * Len(r.performanceIssues))
       /\ r.metaScore >= 0
       /\ r.contentScore >= 0
       /\ r.performanceScore >= 0

\* the document that triggers the largest number of issues in every rule set
C1_Witness ==
  /\ Analyzed
  /\ Len(analysis[1].metaIssues) = 9
  /\ Len(analysis[1].contentIssues) = 8
  /\ Len(analysis[1].performanceIssues) = 6
  /\ analysis[1].metaScore = 10
  /\ analysis[1].contentScore = 36
  /\ analysis[1].performanceScore = 52

TitleMsgs == {MsgTitleMissing, MsgTitleShort, MsgTitleLong}
DescMsgs == {MsgDescMissing, MsgDescShort, MsgDescLong}

Only(issues, msgs) ==
  LET Keep(m) == m \in msgs IN SelectSeq(issues, Keep)

Without(issues, msgs) ==
  LET Keep(m) == m \notin msgs IN SelectSeq(issues, Keep)

\* C10: with L the trimmed title length and D the trimmed description
\* length, exactly one title issue is reported for L = 0 (missing),
\* 1 <= L < 30 (too short) and L > 60 (too long) and none for 30 <= L <= 60;
\* exactly one description issue for an absent or empty description
\* (missing), 1 <= D < 120 (too short) and D > 160 (too long) and none for
\* 120 <= D <= 160; never more than one of each.
C10_TitleAndDescriptionThresholds ==
  Analyzed =>
    LET L == doc[1].meta.titleLen
        D == doc[1].meta.descLen
        t == Only(analysis[1].metaIssues, TitleMsgs)
        d == Only(analysis[1].metaIssues, DescMsgs)
    IN /\ (L = 0) => (t = <<MsgTitleMissing>>)
       /\ (1 <= L /\ L < 30) => (t = <<MsgTitleShort>>)
       /\ (L > 60) => (t = <<MsgTitleLong>>)
       /\ (30 <= L /\ L <= 60) => (t = <<>>)
       /\ (D = Absent \/ D = 0) => (d = <<MsgDescMissing>>)
       /\ (1 <= D /\ D < 120) => (d = <<MsgDescShort>>)
       /\ (D > 160) => (d = <<MsgDescLong>>)
       /\ (120 <= D /\ D <= 160) => (d = <<>>)
       /\ Len(t) <= 1
       /\ Len(d) <= 1

\* a title of exactly 60 and a description of exactly 160 characters
C10_Witness ==
  /\ Analyzed
  /\ doc[1].meta.titleLen = 60
  /\ doc[1].meta.descLen = 160
  /\ Only(analysis[1].metaIssues, TitleMsgs \cup DescMsgs) = <<>>

\* the checks of analyzeSeo: the section and measure each one reads and the
\* messages it can push
Count(lo, text) == {ToString(n) \o text : n \in lo..20}

Checks ==
  {[s |-> "meta", f |-> "titleLen", msgs |-> {MsgTitleMissing}],
   [s |-> "meta", f |-> "titleLen", msgs |-> {MsgTitleShort}],
   [s |-> "meta", f |-> "titleLen", msgs |-> {MsgTitleLong}],
   [s |-> "meta", f |-> "descLen", msgs |-> {MsgDescMissing}],
   [s |-> "meta", f |-> "descLen", msgs |-> {MsgDescShort}],
   [s |-> "meta", f |-> "descLen", msgs |-> {MsgDescLong}],
   [s |-> "meta", f |-> "keywords", msgs |-> {"Missing meta keywords"}],
   [s |-> "meta", f |-> "robots", msgs |-> {"Missing robots meta tag"}],
   [s |-> "meta", f |-> "canonical", msgs |-> {"Missing canonical URL"}],
   [s |-> "meta", f |-> "viewport", msgs |-> {"Missing viewport meta tag"}],
   [s |-> "meta", f |-> "charset", msgs |-> {"Missing charset meta tag"}],
   [s |-> "meta", f |-> "ogTags", msgs |-> {"Missing Open Graph tags"}],
   [s |-> "meta", f |-> "twitterTags",
    msgs |-> {"Missing Twitter Card tags"}],
   [s |-> "content", f |-> "h1Count", msgs |-> {MsgH1Missing}],
   [s |-> "content", f |-> "h1Count", msgs |-> {MsgH1Multiple}],
   [s |-> "content", f |-> "headings", msgs |-> {MsgFewHeadings}],
   [s |-> "content", f |-> "imagesWithoutAlt",
    msgs |-> Count(1, " images missing alt text")],
   [s |-> "content", f |-> "externalLinks",
    msgs |-> {"No external links found (consider adding relevant outbound links)"}],
   [s |-> "content", f |-> "wordCount",
    msgs |-> {"Content length is too short (should be at least 300 words)"}],
   [s |-> "content", f |-> "paragraphs",
    msgs |-> {"Too few paragraphs (should have at least 3 paragraphs)"}],
   [s |-> "content", f |-> "lists",
    msgs |-> {"No lists found (consider using bullet points or numbered lists)"}],
   [s |-> "content", f |-> "tables",
    msgs |-> {"No tables found (consider using tables for structured data)"}],
   [s |-> "perf", f |-> "cssFiles",
    msgs |-> {"High number of CSS files (" \o ToString(n)
                \o " found, recommend combining)" : n \in 0..20}],
   [s |-> "perf", f |-> "jsFiles",
    msgs |-> {"High number of JavaScript files (" \o ToString(n)
                \o " found, recommend combining)" : n \in 0..20}],
   [s |-> "perf", f |-> "inlineStyles",
    msgs |-> Count(0, " inline styles found (recommend using external CSS)")],
   [s |-> "perf", f |-> "inlineScripts",
    msgs |-> Count(0, " inline scripts found (recommend using external JS files)")],
   [s |-> "perf", f |-> "largeImages",
    msgs |-> Count(0, " large images found (recommend optimizing)")],
   [s |-> "perf", f |-> "iframes",
    msgs |-> Count(0, " iframes found (consider reducing for better performance)")]}

Measures == {<<k.s, k.f>> : k \in Checks}

\* the messages of the checks that read measure m
MsgsOf(m) == UNION {k.msgs : k \in {c \in Checks : <<c.s, c.f>> = m}}

Range(seq) == {seq[i] : i \in 1..Len(seq)}

AllIssues(r) == r.metaIssues \o r.contentIssues \o r.performanceIssues

\* the documents that differ from d in the measure m only
Variants(d, m) ==
  {v \in {[d EXCEPT ![m[1]][m[2]] = x] : x \in DocFields[m[1]][m[2]]} :
     v # d /\ v.content.headings >= v.content.h1Count}

Finished == lastCall # None

\* the request logs of the calls in flight and of the finished call
Logs == {c.log : c \in calls} \cup (IF Finished THEN {lastCall[1].log} ELSE {})

Failed(entry) ==
  /\ entry.out # None
  /\ entry.out[1].kind = "threw" \/ entry.out[1].data.kind = "empty"

\* C2: the proxies are requested strictly in the order of PROXY_SERVICES,
\* one at a time: every request but the last of a call has thrown or
\* returned an empty body, and once a proxy returns a non-empty body that
\* body is returned and no later proxy is requested.
C2_SequentialFallback ==
  /\ \A log \in Logs :
       /\ Len(log) <= Len(PROXY_SERVICES)
       /\ \A i \in 1..Len(log) : log[i].proxy = PROXY_SERVICES[i]
       /\ \A i \in 1..(Len(log) - 1) : Failed(log[i])
  /\ \A c \in calls : c.log[Len(c.log)].out = None
  /\ Finished =>
       LET log == lastCall[1].log
           last == log[Len(log)]
       IN /\ last.out # None
          /\ lastCall[1].fetched # None =>
               /\ last.out[1].kind = "data"
               /\ last.out[1].data.kind # "empty"
               /\ lastCall[1].fetched = Some(last.out[1].data)
          /\ lastCall[1].fetched = None => Failed(last)

\* the second proxy returns a body after the first one failed
C2_Witness ==
  /\ Finished
  /\ Len(lastCall[1].log) = 2
  /\ lastCall[1].log[1].out[1].kind = "threw"
  /\ lastCall[1].fetched # None
  /\ lastCall[1].fetched[1].kind = "html"
  /\ results # None

InFlight(id) == \E c \in calls : c.id = id

Settled(id) ==
  /\ Finished
  /\ lastCall[1].id = id
  /\ lastCall[1].fetched # None \/ lastCall[1].thrown # None

\* C3: a call issues at most three proxy requests, each proxy at most once,
\* and, every request eventually resolving or rejecting, the call ends by
\* returning a body or by throwing.
C3_AtMostThreeRequestsAndTermination ==
  /\ [](\A log \in Logs :
          /\ Len(log) <= 3
          /\ \A i, j \in 1..Len(log) : log[i].proxy = log[j].proxy => i = j)
  /\ \A id \in 1..MaxSubmissions : InFlight(id) ~> Settled(id)

\* all three proxies were requested and the call threw
C3_Witness ==
  /\ Finished
  /\ Len(lastCall[1].log) = 3
  /\ lastCall[1].thrown # None
  /\ {lastCall[1].log[i].proxy : i \in 1..3} = Range(PROXY_SERVICES)

Threw(log) == {i \in 1..Len(log) : log[i].out[1].kind = "threw"}

\* C5: when no proxy returns a non-empty body, fetchWithFallback throws the
\* error of the most recent proxy that threw, even if a later proxy answered
\* with an empty body; it throws 'All proxy services failed' only when no
\* proxy threw.
C5_ThrowsMostRecentError ==
  (Finished /\ lastCall[1].fetched = None) =>
    LET log == lastCall[1].log
    IN /\ lastCall[1].thrown # None
       /\ Threw(log) # {} =>
            lastCall[1].thrown =
              log[CHOOSE i \in Threw(log) : \A j \in Threw(log) : j <= i].out[1].err
       /\ Threw(log) = {} =>
            lastCall[1].thrown[1].message = "All proxy services failed"

\* the first proxy threw, the two others answered with an empty body
C5_Witness ==
  /\ Finished
  /\ lastCall[1].fetched = None
  /\ Threw(lastCall[1].log) = {1}
  /\ lastCall[1].thrown = lastCall[1].log[1].out[1].err
  /\ lastCall[1].thrown[1].message # "All proxy services failed"

\* the error analyzeSeo caught: the one fetchWithFallback threw, or the one
\* thrown while loading the body
Caught ==
  IF lastCall[1].thrown # None THEN lastCall[1].thrown[1]
  ELSE PlainError("load failed")

\* C6: every failure of analyzeSeo is rethrown with a message chosen by a
\* fixed priority (ECONNABORTED, then status 404, then status 403, then any
\* other axios error, then any non-axios error, 'All proxy services failed'
\* included); no result is returned, and the message depends on the single
\* error fetchWithFallback threw.
C6_ErrorMessagePriority ==
  (Finished /\ lastCall[1].message # None) =>
    LET e == Caught
        msg == lastCall[1].message[1]
    IN /\ (e.axios /\ e.code = "ECONNABORTED") => msg = MsgTimeout
       /\ (e.axios /\ e.code # "ECONNABORTED" /\ e.status = 404) =>
            msg = MsgNotFound
       /\ (e.axios /\ e.code # "ECONNABORTED" /\ e.status = 403) =>
            msg = MsgDenied
       /\ (e.axios /\ e.code # "ECONNABORTED" /\ e.status \notin {403, 404}) =>
            msg = "Unable to analyze website: " \o e.message
       /\ ~e.axios => msg = MsgFailed
       /\ event = "failed" => (error = msg /\ results = None)

\* the call threw a timeout that also carries a 404 response
C6_Witness ==
  /\ Finished
  /\ event = "failed"
  /\ lastCall[1].thrown = Some(AxiosError("ECONNABORTED", 404))
  /\ error = MsgTimeout

\* C7: handleAnalysis with a url that starts with neither http:// nor
\* https:// sets the validation error, issues no proxy request and leaves
\* loading and results unchanged.
C7_InvalidUrlOnlySetsError ==
  [][event' = "rejected" =>
       /\ error' = MsgInvalidUrl
       /\ UNCHANGED <<loading, results, calls, submitted>>]_vars

\* a rejected click after a successful analysis: the results are still there
C7_Witness ==
  /\ event = "rejected"
  /\ ~StartsWith(url, HttpPrefix)
  /\ ~StartsWith(url, HttpsPrefix)
  /\ error = MsgInvalidUrl
  /\ results # None
  /\ ~loading

\* C8: loading is true exactly while an accepted analysis is in flight, at
\* most one analysis is in flight, what is written to results or error comes
\* from the latest accepted submission, and loading eventually becomes false.
C8_LoadingTracksSingleAnalysis ==
  /\ [](/\ loading <=> (calls # {})
        /\ Cardinality(calls) <= 1
        /\ \A c \in calls : c.id = submitted
        /\ writer # 0 => writer = submitted
        /\ event = "accepted" => loading)
  /\ loading ~> ~loading

\* the second submission is in flight after the first one was settled
C8_Witness ==
  /\ loading
  /\ submitted = 2
  /\ \E c \in calls : c.id = 2 /\ Len(c.log) = 2

\* C9 as stated: a non-empty error and non-null results never coexist, and
\* while loading both are cleared.
C9_ErrorAndResultsNeverCoexist ==
  /\ ~(error # "" /\ results # None)
  /\ loading => (error = "" /\ results = None)

\* C9 amended: a non-empty error and non-null results coexist only when the
\* error is the URL validation message; the error of a failed analysis never
\* coexists with results, and while loading both are cleared.
C9_OnlyValidationErrorBesideResults ==
  /\ (error # "" /\ results # None) => error = MsgInvalidUrl
  /\ loading => (error = "" /\ results = None)

\* the banner and the cards together: the results of a settled analysis and
\* the validation error of a later click
C9_Witness ==
  /\ error # ""
  /\ results # None
  /\ Finished
  /\ lastCall[1].fetched # None
  /\ results = analysis
  /\ submitted >= 1

====
